---- MODULE Spec2Model ----
(***************************************************************************)
(* diffdeck: the concurrent file-discovery pipeline.                       *)
(*                                                                         *)
(* The repository holds two Scanners.  The worker-pool Scanner of          *)
(* internal/scanner/scanner.go (NewScanner): Scan, scanDirectory with its  *)
(* WalkDir callback, the worker goroutine it starts per admitted file,     *)
(* shouldIgnore, shouldInclude and scanFile.  The sequential Scanner kept  *)
(* in internal/config/config.go (New): Scan, scanPath, shouldIgnore,      *)
(* shouldInclude and buildDirectoryTree, with the output options that      *)
(* rewrite content switched off.  A behaviour runs one of the two, or      *)
(* calls one of the library functions PatternMatcher.ShouldInclude and     *)
(* CountLines of internal/utils or the run function of a main package, or  *)
(* runs Check of one of the two security Checkers.                         *)
(*                                                                         *)
(* Strings are sequences of one-character strings, so that path joining,   *)
(* filepath.Base, filepath.Rel, glob matching and the byte order of Go's   *)
(* string comparison are computed, not assumed.                            *)
(***************************************************************************)
EXTENDS Naturals, Sequences, FiniteSets, Bags, TLC

(***************************************************************************)
(* Strings                                                                 *)
(***************************************************************************)

\* The characters the model uses, in increasing byte order.
Alphabet ==
    <<"*", ".", "/", "?", "A", "B", "[", "a", "b", "c", "d", "e", "f", "g",
      "h", "i", "j", "k", "m", "r", "v", "w", "x", "y", "z">>

\* The rank of a character in byte order.
Code(c) == CHOOSE i \in 1..Len(Alphabet) : Alphabet[i] = c

\* Go's s < t on strings: bytewise lexicographic order.
RECURSIVE StrLess(_, _)
StrLess(s, t) ==
    IF t = <<>> THEN FALSE
    ELSE IF s = <<>> THEN TRUE
    ELSE IF Head(s) = Head(t) THEN StrLess(Tail(s), Tail(t))
    ELSE Code(Head(s)) < Code(Head(t))

Drop(s, k) == SubSeq(s, k + 1, Len(s))
Take(s, k) == SubSeq(s, 1, k)

HasPrefix(s, p) == Len(p) <= Len(s) /\ Take(s, Len(p)) = p

Contains(s, p) == \E k \in 0..Len(s) : HasPrefix(Drop(s, k), p)

Slash == <<"/">>
Dot == <<".">>
StarStarSlash == <<"*", "*", "/">>
StarStar == <<"*", "*">>

\* The positions of s that hold a separator.
SlashAt(s) == {k \in 1..Len(s) : s[k] = "/"}

Max(S) == CHOOSE x \in S : \A y \in S : y <= x

\* filepath.Base on a cleaned, slash-separated path: the last element.
Base(p) ==
    IF p = <<>> THEN Dot
    ELSE IF SlashAt(p) = {} THEN p
    ELSE Drop(p, Max(SlashAt(p)))

\* filepath.Join(dir, name) for cleaned operands.
Join(dir, name) == IF dir = Dot THEN name ELSE dir \o Slash \o name

\* filepath.Rel(root, path) for a path the walk of root produced.
Rel(root, path) ==
    IF path = root THEN Dot
    ELSE IF root = Dot THEN path
    ELSE Drop(path, Len(root) + 1)

\* q is an entry somewhere below directory dir ("." is the directory the
\* relative paths start from).
Inside(dir, q) == IF dir = Dot THEN q # Dot ELSE HasPrefix(q, dir \o Slash)

\* filepath.ToSlash: the separator is already "/" on the modelled platform.
ToSlash(p) == p

\* strings.ToLower, on the letters of the alphabet.
LowerChar(c) == IF c = "A" THEN "a" ELSE IF c = "B" THEN "b" ELSE c
ToLower(s) == [k \in 1..Len(s) |-> LowerChar(s[k])]

(***************************************************************************)
(* Glob matching                                                           *)
(***************************************************************************)

\* The length of the longest prefix of n that holds no separator.
RECURSIVE Run(_)
Run(n) == IF n = <<>> \/ Head(n) = "/" THEN 0 ELSE 1 + Run(Tail(n))

\* doublestar's patterns that match the empty remainder of a name.
IsZeroLengthPattern(p) ==
    p \in {<<>>, <<"*">>, StarStar, <<"/", "*", "*">>, StarStarSlash,
           <<"/", "*", "*", "/">>}

\* doublestar.Match(pattern, name); start: p begins a path component.
\* "**" is a globstar only as a whole component; elsewhere it acts as "*".
RECURSIVE DMatch(_, _, _)
DMatch(p, n, start) ==
    IF n = <<>> THEN IsZeroLengthPattern(p)
    ELSE IF p = <<>> THEN FALSE
    ELSE IF start /\ p = StarStar THEN TRUE
    ELSE IF start /\ HasPrefix(p, StarStarSlash)
      THEN \/ DMatch(Drop(p, 3), n, TRUE)
           \/ \E k \in SlashAt(n) : DMatch(Drop(p, 3), Drop(n, k), TRUE)
    ELSE IF Head(p) = "*"
      THEN \E k \in 0..Run(n) : DMatch(Tail(p), Drop(n, k), FALSE)
    ELSE IF Head(p) = "?"
      THEN Head(n) # "/" /\ DMatch(Tail(p), Tail(n), FALSE)
    ELSE Head(p) = Head(n) /\ DMatch(Tail(p), Tail(n), Head(p) = "/")

\* A pattern with a syntax error: of the malformed patterns the model has
\* the character class that is never closed.
Malformed(pattern) ==
    \E k \in 1..Len(pattern) :
        pattern[k] = "[" /\ \A j \in (k + 1)..Len(pattern) : pattern[j] # "]"

\* A doublestar.Match that reports a match along with the error.
DoublestarMatchesOnError(pattern, name) ==
    IF Malformed(pattern) THEN [matched |-> TRUE, err |-> "ErrBadPattern"]
    ELSE [matched |-> DMatch(pattern, name, TRUE), err |-> "nil"]

\* doublestar.Match(pattern, name) as (matched, err): a malformed pattern
\* gives (false, ErrBadPattern).
DoublestarMatchErr(pattern, name) ==
    IF Malformed(pattern) THEN [matched |-> FALSE, err |-> "ErrBadPattern"]
    ELSE [matched |-> DMatch(pattern, name, TRUE), err |-> "nil"]

\* The first result of doublestar.Match.
DoublestarMatch(pattern, name) == DoublestarMatchErr(pattern, name).matched

\* filepath.Match(pattern, name): "*" and "?" never match a separator.
RECURSIVE FMatch(_, _)
FMatch(p, n) ==
    IF p = <<>> THEN n = <<>>
    ELSE IF Head(p) = "*"
      THEN \E k \in 0..Run(n) : FMatch(Tail(p), Drop(n, k))
    ELSE IF n = <<>> THEN FALSE
    ELSE IF Head(p) = "?"
      THEN Head(n) # "/" /\ FMatch(Tail(p), Tail(n))
    ELSE Head(p) = Head(n) /\ FMatch(Tail(p), Tail(n))

\* The first result of filepath.Match(pattern, name): false with
\* ErrBadPattern for a malformed pattern.
FilepathMatch(pattern, name) == ~Malformed(pattern) /\ FMatch(pattern, name)

(***************************************************************************)
(* The file system the scans run over                                      *)
(***************************************************************************)

\* Bounds of the model.
MaxFileSize == 2
MaxRuns == 2

\* The capacity of Scanner.semaphore.
PoolSize == 10

Entry(path, isDir, statOK, readOK, content) ==
    [path |-> path, isDir |-> isDir, statOK |-> statOK, readOK |-> readOK,
     content |-> content]

R == <<"r">>
RD == Join(R, <<"d">>)
RV == Join(R, <<"v">>)
W == <<"w">>
F == <<"f">>
M == <<"m">>
RDB == Join(RD, <<"b">>)
RVX == Join(RV, <<"x">>)

\* One more file name than the pool has slots.
WideNames == <<"a", "b", "c", "d", "e", "f", "g", "h", "i", "j", "k">>

\* r/a is a small file, r/d/b is larger than MaxFileSize, r/v/x is listed
\* but cannot be read (permission denied); f is a regular file; m does not
\* exist.  w holds PoolSize + 1 files: w/a is readable, the others were
\* deleted after being listed (stat fails).  "." is the current directory,
\* which holds r, f and w.
Disk ==
    {Entry(Dot, TRUE, TRUE, TRUE, <<>>),
     Entry(R, TRUE, TRUE, TRUE, <<>>),
     Entry(Join(R, <<"a">>), FALSE, TRUE, TRUE, <<"x">>),
     Entry(RD, TRUE, TRUE, TRUE, <<>>),
     Entry(Join(RD, <<"b">>), FALSE, TRUE, TRUE, <<"x", "y", "z">>),
     Entry(RV, TRUE, TRUE, TRUE, <<>>),
     Entry(Join(RV, <<"x">>), FALSE, TRUE, FALSE, <<"x">>),
     Entry(F, FALSE, TRUE, TRUE, <<"y">>),
     Entry(W, TRUE, TRUE, TRUE, <<>>)}
    \cup {Entry(Join(W, <<WideNames[i]>>), FALSE, i = 1, i = 1, <<"x">>) :
            i \in 1..Len(WideNames)}

Paths == {e.path : e \in Disk}
Exists(p) == p \in Paths
EntryAt == [p \in Paths |-> CHOOSE e \in Disk : e.path = p]
Lookup(p) == EntryAt[p]

\* The entries of directory p, as paths.
ChildrenOf(p) ==
    {q \in Paths : Inside(p, q) /\ SlashAt(Rel(p, q)) = {}}

\* A finite set of strings as a sequence in increasing byte order.
RECURSIVE SortStrings(_)
SortStrings(S) ==
    IF S = {} THEN <<>>
    ELSE LET m == CHOOSE x \in S : \A y \in S \ {x} : StrLess(x, y)
         IN <<m>> \o SortStrings(S \ {m})

\* The listing of every directory of the disk, sorted by file name.
DirListing == [p \in {e.path : e \in {x \in Disk : x.isDir}} |-> SortStrings(ChildrenOf(p))]

\* os.ReadDir(p): the entries of p sorted by file name.
ReadDir(p) == DirListing[p]

(***************************************************************************)
(* Configurations and roots                                                *)
(***************************************************************************)

IgnoreSets ==
    {<<>>, << <<"v">> >>, << <<"v", "/", "*", "*">> >>,
     << <<"d", "/", "*">>, <<"v">> >>, << <<"[">>, <<"v">> >>,
     << <<"b">>, <<"v">> >>}
IncludeSets ==
    {<<>>, << <<"d", "/", "*">> >>, << StarStarSlash \o <<"*">> >>,
     << <<"[">> >>}
RootLists ==
    {<<R>>, <<R, M>>, <<RD, R>>, <<F>>, <<F, R>>, <<M>>, <<RDB, F, RVX>>}
WideRootLists == {<<W>>, <<F>>, <<M>>}

(***************************************************************************)
(* State                                                                   *)
(***************************************************************************)

VARIABLES
    variant,    \* the Scanner in use: "pool" (scanner.go) or "seq" (config.go)
    directoryStructure, \* cfg.Output.DirectoryStructure (sequential Scanner)
    args,       \* the list of paths Scan was called with
    roots,      \* Scan's variable paths
    include,    \* config.Include
    ignore,     \* config.Ignore.Patterns
    run,        \* which call of Scan on this Scanner is in progress
    pc,         \* where Scan is
    idx,        \* Scan's loop position in paths (1-based)
    files,      \* Scan's local files
    err,        \* the error Scan returned ("nil" when none)
    pending,    \* WalkDir's paths still to visit, next first
    walkErr,    \* the error WalkDir returned to scanDirectory
    dirFiles,   \* scanDirectory's local files, one per call (by idx)
    mu,         \* scanDirectory's local mu, one per call: its holder
    workers,    \* the goroutines started: (idx, path) -> [pc, file]
    semaphore,  \* number of tokens in Scanner.semaphore
    acquired,   \* goroutines past the send that have not called scanFile
    wg,         \* the counter of Scanner.wg
    enumerated, \* history: (idx, path) handed to the WalkDir callback
    opened,     \* history: (idx, path) scanFile was called on
    prev,       \* history: the result of the previous call of Scan
    call,       \* the library function being called: its input and result
    chk         \* the call of security.Checker.Check in progress

vars ==
    <<variant, directoryStructure, args, roots, include, ignore, run, pc, idx, files, err, pending, walkErr,
      dirFiles, mu, workers, semaphore, acquired, wg, enumerated, opened,
      prev, call, chk>>

\* The variables of the scans and of the library calls.
scanVars ==
    <<variant, directoryStructure, args, roots, include, ignore, run, pc, idx,
      files, err, pending, walkErr, dirFiles, mu, workers, semaphore,
      acquired, wg, enumerated, opened, prev, call>>

NoOne == <<>>
NoPrev == [scanned |-> FALSE, files |-> <<>>]

File(path, content, size, isDir) ==
    [Path |-> path, Content |-> content, Size |-> size, IsDir |-> isDir,
     Children |-> <<>>]

EmptyFile == File(<<>>, <<>>, 0, FALSE)

(***************************************************************************)
(* Scanner.shouldIgnore, Scanner.shouldInclude, Scanner.scanFile           *)
(***************************************************************************)

IgnoreMatches(pattern, path) ==
    IF HasPrefix(pattern, StarStarSlash) THEN DoublestarMatch(pattern, path)
    ELSE IF Contains(pattern, StarStar) THEN DoublestarMatch(pattern, path)
    ELSE FilepathMatch(pattern, Base(path))

shouldIgnore(path) ==
    \E k \in 1..Len(ignore) : IgnoreMatches(ToSlash(ignore[k]), ToSlash(path))

shouldInclude(path) ==
    \/ Len(include) = 0
    \/ \E k \in 1..Len(include) :
          DoublestarMatch(ToSlash(include[k]), ToSlash(path))

\* scanFile(path): [ok, file].  os.Stat, then os.ReadFile unless the entry
\* is a directory or larger than maxSize.
scanFile(path) ==
    IF ~Exists(path) \/ ~Lookup(path).statOK
      THEN [ok |-> FALSE, file |-> EmptyFile]
    ELSE LET e == Lookup(path)
             size == IF e.isDir THEN 0 ELSE Len(e.content)
             file == File(path, <<>>, size, e.isDir)
         IN IF ~e.isDir /\ size <= MaxFileSize
              THEN IF e.readOK
                     THEN [ok |-> TRUE, file |-> File(path, e.content, size, FALSE)]
                     ELSE [ok |-> FALSE, file |-> file]
              ELSE [ok |-> TRUE, file |-> file]

(***************************************************************************)
(* utils.PatternMatcher                                                    *)
(***************************************************************************)

NewPatternMatcher(includes, ignores, caseSensitive) ==
    [includePatterns |-> includes, ignorePatterns |-> ignores,
     caseSensitive |-> caseSensitive]

\* The pattern as ShouldInclude hands it to doublestar.Match.
Folded(pm, pattern) == IF ~pm.caseSensitive THEN ToLower(pattern) ELSE pattern

\* ShouldInclude lower-casing the path but not the patterns.
ShouldIncludeFoldsPathOnly(pm, path) ==
    LET name == IF ~pm.caseSensitive THEN ToLower(path) ELSE path
    IN /\ \A k \in 1..Len(pm.ignorePatterns) :
             ~DoublestarMatch(pm.ignorePatterns[k], name)
       /\ \/ Len(pm.includePatterns) = 0
          \/ \E k \in 1..Len(pm.includePatterns) :
                DoublestarMatch(pm.includePatterns[k], name)

\* ShouldInclude with the include patterns taken as an intersection.
ShouldIncludeAllPatterns(pm, path) ==
    LET name == IF ~pm.caseSensitive THEN ToLower(path) ELSE path
    IN /\ \A k \in 1..Len(pm.ignorePatterns) :
             ~DoublestarMatch(Folded(pm, pm.ignorePatterns[k]), name)
       /\ \A k \in 1..Len(pm.includePatterns) :
             DoublestarMatch(Folded(pm, pm.includePatterns[k]), name)

\* NormalizePatterns, for one pattern: "**/" is put in front unless the
\* pattern starts with "/" or "**/".
NormalizePattern(pattern) ==
    LET slashed == ToSlash(pattern)
    IN IF ~HasPrefix(slashed, Slash) /\ ~HasPrefix(slashed, StarStarSlash)
         THEN StarStarSlash \o slashed
         ELSE slashed

\* NormalizePatterns(patterns)
NormalizePatterns(patterns) ==
    [k \in 1..Len(patterns) |-> NormalizePattern(patterns[k])]

\* (*PatternMatcher).ShouldInclude(path)
ShouldInclude(pm, path) ==
    LET slashed == ToSlash(path)
        name == IF ~pm.caseSensitive THEN ToLower(slashed) ELSE slashed
    IN IF \E k \in 1..Len(pm.ignorePatterns) :
             DoublestarMatchErr(Folded(pm, pm.ignorePatterns[k]), name).matched
         THEN FALSE
       ELSE IF Len(pm.includePatterns) = 0 THEN TRUE
       ELSE \E k \in 1..Len(pm.includePatterns) :
                DoublestarMatchErr(Folded(pm, pm.includePatterns[k]), name).matched

(***************************************************************************)
(* utils.CountLines                                                        *)
(***************************************************************************)

NL == "\n"

\* The loop of CountLines: count is raised once per newline byte.
RECURSIVE CountNewlines(_)
CountNewlines(content) ==
    IF content = <<>> THEN 0
    ELSE (IF Head(content) = NL THEN 1 ELSE 0) + CountNewlines(Tail(content))

\* A CountLines that adds one for the last line whatever the last byte is.
CountLinesPlusOne(content) ==
    IF Len(content) = 0 THEN 0 ELSE CountNewlines(content) + 1

\* CountLines(content)
CountLines(content) ==
    IF Len(content) = 0 THEN 0
    ELSE IF content[Len(content)] # NL THEN CountNewlines(content) + 1
    ELSE CountNewlines(content)

(***************************************************************************)
(* run of the two main packages                                            *)
(***************************************************************************)

\* Whether run calls runSecurityCheck.  cmd/diffdeck/main.go keeps the
\* setting in cfg.Security.EnableSecurityCheck, the other main package in
\* cfg.Security.DisableSecurityCheck; applyCommandLineOverrides sets the
\* field when --no-security-check is given.
ChecksSecurity(main, enabledInConfig, noSecurityCheck) ==
    IF main = "cmd"
      THEN LET EnableSecurityCheck ==
                   IF noSecurityCheck THEN FALSE ELSE enabledInConfig
           IN ~EnableSecurityCheck
      ELSE LET DisableSecurityCheck ==
                   IF noSecurityCheck THEN TRUE ELSE ~enabledInConfig
           IN ~DisableSecurityCheck

\* The stages run goes through, in order, when the stage named failing
\* returns an error ("none": no stage fails).
runMain(main, enabledInConfig, noSecurityCheck, failing) ==
    LET stages ==
            <<"processLocalFiles">>
            \o (IF ChecksSecurity(main, enabledInConfig, noSecurityCheck)
                  THEN <<"runSecurityCheck">> ELSE <<>>)
            \o <<"formatOutput", "writeOutput">>
        stop == {k \in 1..Len(stages) : stages[k] = failing}
    IN IF stop = {} THEN stages ELSE Take(stages, Max(stop))

(***************************************************************************)
(* Calls of the library functions                                          *)
(***************************************************************************)

\* No library function is being called (a Scanner is running).
NoCall == [fn |-> "none", in |-> <<>>, returned |-> FALSE, out |-> FALSE]

MatcherPatterns ==
    {<<"a", "/", "*">>, <<"A", "/", "*">>, StarStarSlash \o <<"b">>, <<"v">>,
     <<"[">>}

PatternLists ==
    {<<>>} \cup {<<p>> : p \in MatcherPatterns}
           \cup {<<p, q>> : p, q \in MatcherPatterns}

MatcherPaths ==
    {<<"a", "/", "b">>, <<"A", "/", "b">>, <<"a", "/", "B">>, <<"v">>}

\* The calls pm.ShouldInclude(path) about to be made.
ShouldIncludeCalls ==
    {[fn |-> "ShouldInclude",
      in |-> [pm |-> NewPatternMatcher(inc, ign, cs), path |-> path],
      returned |-> FALSE, out |-> FALSE] :
        inc \in PatternLists, ign \in PatternLists, cs \in BOOLEAN,
        path \in MatcherPaths}

\* The longest content CountLines is called with.
MaxContentLen == 4

\* Contents made of the byte "a" and the newline byte.
Contents ==
    UNION {[1..n -> {"a", NL}] : n \in 0..MaxContentLen}

\* The calls CountLines(content) about to be made.
CountLinesCalls ==
    {[fn |-> "CountLines", in |-> content, returned |-> FALSE, out |-> 0] :
        content \in Contents}

\* The runs of the program about to be made.
RunCalls ==
    {[fn |-> "run",
      in |-> [main |-> m, enabledInConfig |-> e, noSecurityCheck |-> n,
              failing |-> f],
      returned |-> FALSE, out |-> <<>>] :
        m \in {"cmd", "part_005"}, e \in BOOLEAN, n \in BOOLEAN,
        f \in {"none", "processLocalFiles", "runSecurityCheck", "formatOutput"}}

Calls == ShouldIncludeCalls \cup CountLinesCalls \cup RunCalls

\* pm.ShouldInclude(path) returns.
ShouldIncludeReturns ==
    /\ call.fn = "ShouldInclude"
    /\ ~call.returned
    /\ call' = [call EXCEPT !.returned = TRUE,
                            !.out = ShouldInclude(call.in.pm, call.in.path)]
    /\ UNCHANGED <<chk, variant, directoryStructure, args, roots, include, ignore, run, pc, idx, files, err,
                   pending, walkErr, dirFiles, mu, workers, semaphore,
                   acquired, wg, enumerated, opened, prev>>

\* run returns.
RunReturns ==
    /\ call.fn = "run"
    /\ ~call.returned
    /\ call' = [call EXCEPT !.returned = TRUE,
                            !.out = runMain(call.in.main, call.in.enabledInConfig,
                                            call.in.noSecurityCheck,
                                            call.in.failing)]
    /\ UNCHANGED <<chk, variant, directoryStructure, args, roots, include, ignore,
                   run, pc, idx, files, err, pending, walkErr, dirFiles, mu,
                   workers, semaphore, acquired, wg, enumerated, opened, prev>>

\* CountLines(content) returns.
CountLinesReturns ==
    /\ call.fn = "CountLines"
    /\ ~call.returned
    /\ call' = [call EXCEPT !.returned = TRUE, !.out = CountLines(call.in)]
    /\ UNCHANGED <<chk, variant, directoryStructure, args, roots, include, ignore,
                   run, pc, idx, files, err, pending, walkErr, dirFiles, mu,
                   workers, semaphore, acquired, wg, enumerated, opened, prev>>

(***************************************************************************)
(* security.Checker.Check                                                  *)
(***************************************************************************)

\* The capacity of the semaphore Check makes: in the Checker that matches
\* patterns itself, and in the Checker that runs secretlint.
PatternPoolSize == 10
SecretlintPoolSize == 5

Capacity(kind) ==
    IF kind = "secretlint" THEN SecretlintPoolSize ELSE PatternPoolSize

\* An input of Check, with what the world does when it is checked: temp is
\* how createTempFile ends ("ok", "mkdir": os.MkdirTemp fails, "write":
\* os.WriteFile fails), check is how checkFile ends ("ok", "err"), found is
\* the <<line, rule>> pairs the check reports.
Checked(path, isDir, temp, check, found) ==
    [Path |-> path, IsDir |-> isDir, temp |-> temp, check |-> check,
     found |-> found]

Clean(path) == Checked(path, FALSE, "ok", "ok", <<>>)

\* checkFile: the issues found, each with the path of the input.
checkFile(f) ==
    [k \in 1..Len(f.found) |->
        [FilePath |-> f.Path, Line |-> f.found[k][1], Rule |-> f.found[k][2]]]

\* What the goroutine started for an input will do and find.
Task(f) == [temp |-> f.temp, check |-> f.check, issues |-> checkFile(f)]

\* Eleven changes, one more than the pattern Checker's semaphore holds; two
\* of them have findings.
Changes ==
    <<Clean(<<"a">>),
      Checked(<<"b">>, FALSE, "ok", "ok", << <<2, "key">> >>),
      Checked(<<"c">>, FALSE, "ok", "ok", << <<1, "key">>, <<1, "token">> >>),
      Clean(<<"d">>), Clean(<<"e">>), Clean(<<"f">>), Clean(<<"g">>),
      Clean(<<"h">>), Clean(<<"i">>), Clean(<<"j">>), Clean(<<"k">>)>>

\* Six files, one more than the secretlint Checker's semaphore holds, and a
\* directory; one file per way createTempFile and checkFile can end.
ScannedFiles ==
    <<Checked(<<"c">>, FALSE, "ok", "ok", << <<1, "key">>, <<1, "token">> >>),
      Checked(<<"b">>, FALSE, "ok", "ok", << <<2, "key">> >>),
      Clean(<<"a">>),
      Checked(<<"d">>, TRUE, "ok", "ok", <<>>),
      Checked(<<"e">>, FALSE, "mkdir", "ok", <<>>),
      Checked(<<"f">>, FALSE, "write", "ok", <<>>),
      Checked(<<"g">>, FALSE, "ok", "err", << <<1, "key">> >>)>>

\* Check(files) is entered on a Checker of this kind.
CheckOf(kind, fs) ==
    [kind |-> kind, files |-> fs, pc |-> "loop", next |-> 1,
     started |-> EmptyBag, acquired |-> 0, semaphore |-> 0,
     checking |-> EmptyBag, locking |-> EmptyBag, appending |-> <<>>,
     issues |-> <<>>, wg |-> 0, tempFiles |-> 0, tempDirs |-> 0,
     peak |-> 0]

NoCheck == [CheckOf("none", <<>>) EXCEPT !.pc = "idle"]

CheckStarts ==
    {CheckOf("pattern", Changes), CheckOf("pattern", <<>>),
     CheckOf("secretlint", ScannedFiles)}

\* The order of sort.Slice in the secretlint Check: by FilePath, then Line.
IssueLess(a, b) ==
    IF a.FilePath = b.FilePath THEN a.Line < b.Line
    ELSE StrLess(a.FilePath, b.FilePath)

\* The orders sort.Slice (not stable) can leave the issues with indices I
\* in.
RECURSIVE SortedIssues(_, _)
SortedIssues(is, I) ==
    IF I = {} THEN {<<>>}
    ELSE UNION {{<<is[m]>> \o t : t \in SortedIssues(is, I \ {m})} :
                  m \in {k \in I : \A j \in I : ~IssueLess(is[j], is[k])}}

\* for _, file := range files: skip a directory (secretlint Checker), else
\* wg.Add(1) and go func(f).
CheckDispatch ==
    /\ chk.pc = "loop"
    /\ chk.next <= Len(chk.files)
    /\ LET f == chk.files[chk.next]
       IN IF chk.kind = "secretlint" /\ f.IsDir
            THEN chk' = [chk EXCEPT !.next = @ + 1]
            ELSE chk' = [chk EXCEPT !.next = @ + 1,
                                    !.wg = @ + 1,
                                    !.started = @ (+) SetToBag({Task(f)})]
    /\ UNCHANGED scanVars

\* wg.Wait() returns; the secretlint Check sorts the issues; return.
CheckWait ==
    /\ chk.pc = "loop"
    /\ chk.next > Len(chk.files)
    /\ chk.wg = 0
    /\ \E sorted \in (IF chk.kind = "secretlint"
                        THEN SortedIssues(chk.issues, 1..Len(chk.issues))
                        ELSE {chk.issues}) :
           chk' = [chk EXCEPT !.pc = "done", !.issues = sorted]
    /\ UNCHANGED scanVars

\* semaphore <- struct{}{} by a goroutine that has not sent yet.  Until it
\* goes on, a goroutine past the send is any of the started ones.
CheckAcquire ==
    /\ chk.acquired < BagCardinality(chk.started)
    /\ chk.semaphore < Capacity(chk.kind)
    /\ chk' = [chk EXCEPT !.acquired = @ + 1,
                          !.semaphore = @ + 1,
                          !.peak = IF chk.semaphore + 1 > @
                                     THEN chk.semaphore + 1 ELSE @]
    /\ UNCHANGED scanVars

\* The secretlint goroutine's createTempFile, which makes a directory and
\* writes the file into it.  When it fails the goroutine returns: the
\* deferred <-semaphore and wg.Done() run.
CheckCreateTempFile(t) ==
    /\ chk.kind = "secretlint"
    /\ BagIn(t, chk.started)
    /\ chk.acquired > 0
    /\ IF t.temp = "ok"
         THEN chk' = [chk EXCEPT !.started = @ (-) SetToBag({t}),
                                 !.acquired = @ - 1,
                                 !.tempDirs = @ + 1,
                                 !.tempFiles = @ + 1,
                                 !.checking = @ (+) SetToBag({t})]
         ELSE chk' = [chk EXCEPT !.started = @ (-) SetToBag({t}),
                                 !.acquired = @ - 1,
                                 !.semaphore = @ - 1,
                                 !.wg = @ - 1]
    /\ UNCHANGED scanVars

\* The secretlint goroutine's checkFile.  On an error, and when nothing
\* was found, the goroutine returns: the deferred os.Remove(tempFile),
\* <-semaphore and wg.Done() run.
CheckTempFile(t) ==
    /\ chk.kind = "secretlint"
    /\ BagIn(t, chk.checking)
    /\ IF t.check = "ok" /\ Len(t.issues) > 0
         THEN chk' = [chk EXCEPT !.checking = @ (-) SetToBag({t}),
                                 !.locking = @ (+) SetToBag({t})]
         ELSE chk' = [chk EXCEPT !.checking = @ (-) SetToBag({t}),
                                 !.tempFiles = @ - 1,
                                 !.semaphore = @ - 1,
                                 !.wg = @ - 1]
    /\ UNCHANGED scanVars

\* The pattern goroutine's checkFile, which cannot fail.
CheckChange(t) ==
    /\ chk.kind = "pattern"
    /\ BagIn(t, chk.started)
    /\ chk.acquired > 0
    /\ chk' = [chk EXCEPT !.started = @ (-) SetToBag({t}),
                          !.acquired = @ - 1,
                          !.locking = @ (+) SetToBag({t})]
    /\ UNCHANGED scanVars

\* Lock that does not wait for the holder.
CheckLockWithoutWaiting(t) ==
    /\ BagIn(t, chk.locking)
    /\ chk' = [chk EXCEPT !.locking = @ (-) SetToBag({t}),
                          !.appending = Append(@, [found |-> t.issues,
                                                   seen |-> chk.issues])]
    /\ UNCHANGED scanVars

\* mu.Lock(), and the read of issues that append starts with.
CheckLock(t) ==
    /\ BagIn(t, chk.locking)
    /\ chk.appending = <<>>
    /\ chk' = [chk EXCEPT !.locking = @ (-) SetToBag({t}),
                          !.appending = Append(@, [found |-> t.issues,
                                                   seen |-> chk.issues])]
    /\ UNCHANGED scanVars

\* issues = append(issues, fileIssues...); mu.Unlock(); the goroutine
\* returns: the deferred os.Remove(tempFile) of the secretlint Checker,
\* <-semaphore and wg.Done() run.
CheckAppend(i) ==
    /\ i \in DOMAIN chk.appending
    /\ chk' = [chk EXCEPT
                 !.issues = chk.appending[i].seen \o chk.appending[i].found,
                 !.appending = SubSeq(@, 1, i - 1) \o SubSeq(@, i + 1, Len(@)),
                 !.tempFiles = IF chk.kind = "secretlint" THEN @ - 1 ELSE @,
                 !.semaphore = @ - 1,
                 !.wg = @ - 1]
    /\ UNCHANGED scanVars

\* The tasks a goroutine of Check can be running.
Tasks == {Task(chk.files[k]) : k \in 1..Len(chk.files)}

CheckStep ==
    \/ CheckDispatch
    \/ CheckWait
    \/ CheckAcquire
    \/ \E t \in Tasks : CheckCreateTempFile(t)
    \/ \E t \in Tasks : CheckTempFile(t)
    \/ \E t \in Tasks : CheckChange(t)
    \/ \E t \in Tasks : CheckLock(t)
    \/ \E i \in DOMAIN chk.appending : CheckAppend(i)

(***************************************************************************)
(* Initial states                                                          *)
(***************************************************************************)

\* Where Scan's loop over paths goes at position i: the next path, or
\* past the loop (s.wg.Wait() in scanner.go, sort.Slice in config.go).
LoopAt(i) ==
    IF i <= Len(roots) THEN "stat"
    ELSE IF variant = "pool" THEN "wait" ELSE "sort"

\* A Scanner of variant v, configured with the patterns, when Scan(rs) is
\* called on it as the n-th of the Scans its caller makes.
StartAt(n, v, rs, inc, ign) ==
    /\ variant = v
    /\ args = rs
    /\ roots = rs
    /\ include = inc
    /\ ignore = ign
    /\ run = n
    /\ pc = "scan"
    /\ idx = 1
    /\ files = <<>>
    /\ err = "nil"
    /\ pending = <<>>
    /\ walkErr = "nil"
    /\ dirFiles = <<>>
    /\ mu = <<>>
    /\ workers = <<>>
    /\ semaphore = 0
    /\ acquired = 0
    /\ wg = 0
    /\ enumerated = {}
    /\ opened = {}
    /\ prev = NoPrev
    /\ call = NoCall
    /\ chk = NoCheck

\* The first Scan on a new Scanner.
Start(v, rs, inc, ign) == StartAt(1, v, rs, inc, ign)

Variants == {"pool", "seq"}

\* No Scanner is running: a library function is called on its own.
NoScan ==
    /\ variant = "pool"
    /\ directoryStructure = FALSE
    /\ args = <<>>
    /\ roots = <<>>
    /\ include = <<>>
    /\ ignore = <<>>
    /\ run = 1
    /\ pc = "idle"
    /\ idx = 1
    /\ files = <<>>
    /\ err = "nil"
    /\ pending = <<>>
    /\ walkErr = "nil"
    /\ dirFiles = <<>>
    /\ mu = <<>>
    /\ workers = <<>>
    /\ semaphore = 0
    /\ acquired = 0
    /\ wg = 0
    /\ enumerated = {}
    /\ opened = {}
    /\ prev = NoPrev

\* The values of cfg.Output.DirectoryStructure that matter: scanner.go
\* never reads the option.
TreeOptions(v) == IF v = "seq" THEN BOOLEAN ELSE {FALSE}

\* The patterns of the Scanner that Scan is called on with no paths: they
\* keep the walk of "." out of w and out of r/v.
IgnoreWide == << <<"w">>, StarStarSlash \o <<"v">> >>

\* Scan called with an empty list of paths.
InitNoPaths ==
    \E v \in Variants :
        Start(v, <<>>, <<>>, IgnoreWide) /\ directoryStructure \in TreeOptions(v)

Init ==
    \/ \E v \in Variants, rs \in RootLists, inc \in IncludeSets,
          ign \in IgnoreSets :
           Start(v, rs, inc, ign) /\ directoryStructure \in TreeOptions(v)
    \/ InitNoPaths
    \/ NoScan /\ call \in Calls /\ chk = NoCheck
    \/ NoScan /\ call = NoCall /\ chk \in CheckStarts

InitPool ==
    \/ \E v \in Variants, rs \in WideRootLists :
           Start(v, rs, <<>>, <<>>) /\ directoryStructure \in TreeOptions(v)
    \/ InitNoPaths
    \/ NoScan /\ call \in Calls /\ chk = NoCheck
    \/ NoScan /\ call = NoCall /\ chk \in CheckStarts

(***************************************************************************)
(* Scanner.Scan                                                            *)
(***************************************************************************)

Statable(p) == Exists(p) /\ Lookup(p).statOK

\* os.Stat(path) fails: return nil, err.
\* Scan is entered.  The sequential Scan replaces an empty paths by ["."]
\* (config.go:315-317); the worker-pool Scan uses paths as it is.
ScanCalled ==
    /\ pc = "scan"
    /\ roots' = IF variant = "seq" /\ Len(roots) = 0 THEN <<Dot>> ELSE roots
    /\ pc' = IF Len(roots') > 0 THEN "stat" ELSE "wait"
    /\ UNCHANGED <<chk, call, variant, directoryStructure, args, include, ignore, run,
                   idx, files, err, pending, walkErr, dirFiles, mu, workers,
                   semaphore, acquired, wg, enumerated, opened, prev>>

ScanStatFails ==
    /\ variant = "pool"
    /\ pc = "stat"
    /\ ~Statable(roots[idx])
    /\ pc' = "failed"
    /\ err' = "stat"
    /\ files' = <<>>
    /\ UNCHANGED <<chk, call, variant, directoryStructure, args, roots, include, ignore, run, idx, pending, walkErr,
                   dirFiles, mu, workers, semaphore, acquired, wg, enumerated, opened,
                   prev>>

\* stat.IsDir(): enter scanDirectory(path), whose files and mu are fresh.
ScanEnterDirectory ==
    /\ variant = "pool"
    /\ pc = "stat"
    /\ Statable(roots[idx])
    /\ Lookup(roots[idx]).isDir
    /\ pc' = "walk"
    /\ pending' = <<roots[idx]>>
    /\ walkErr' = "nil"
    /\ dirFiles' = (idx :> <<>>) @@ dirFiles
    /\ mu' = (idx :> NoOne) @@ mu
    /\ UNCHANGED <<chk, call, variant, directoryStructure, args, roots, include, ignore, run, idx, files, err, workers,
                   semaphore, acquired, wg, enumerated, opened, prev>>

\* A file root that is put through the include check as well.
ScanRootFileChecksInclude ==
    /\ variant = "pool"
    /\ pc = "stat"
    /\ Statable(roots[idx])
    /\ ~Lookup(roots[idx]).isDir
    /\ LET path == roots[idx]
           r == scanFile(path)
       IN IF shouldIgnore(path) \/ ~shouldInclude(path)
            THEN /\ pc' = LoopAt(idx + 1)
                 /\ idx' = idx + 1
                 /\ UNCHANGED <<files, err, opened>>
          ELSE IF ~r.ok
            THEN /\ pc' = "failed"
                 /\ err' = "scanFile"
                 /\ files' = <<>>
                 /\ opened' = opened \cup {<<idx, path>>}
                 /\ UNCHANGED idx
          ELSE /\ pc' = LoopAt(idx + 1)
               /\ idx' = idx + 1
               /\ files' = Append(files, r.file)
               /\ opened' = opened \cup {<<idx, path>>}
               /\ UNCHANGED err
    /\ UNCHANGED <<chk, call, variant, directoryStructure, args, roots, include, ignore, run, pending, walkErr, dirFiles,
                   mu, workers, semaphore, acquired, wg, enumerated, prev>>

\* A root that is a regular file: ignore check, then scanFile inline.
ScanRootFile ==
    /\ variant = "pool"
    /\ pc = "stat"
    /\ Statable(roots[idx])
    /\ ~Lookup(roots[idx]).isDir
    /\ LET path == roots[idx]
           r == scanFile(path)
       IN IF shouldIgnore(path)
            THEN /\ pc' = LoopAt(idx + 1)
                 /\ idx' = idx + 1
                 /\ UNCHANGED <<files, err, opened>>
          ELSE IF ~r.ok
            THEN /\ pc' = "failed"
                 /\ err' = "scanFile"
                 /\ files' = <<>>
                 /\ opened' = opened \cup {<<idx, path>>}
                 /\ UNCHANGED idx
          ELSE /\ pc' = LoopAt(idx + 1)
               /\ idx' = idx + 1
               /\ files' = Append(files, r.file)
               /\ opened' = opened \cup {<<idx, path>>}
               /\ UNCHANGED err
    /\ UNCHANGED <<chk, call, variant, directoryStructure, args, roots, include, ignore, run, pending, walkErr, dirFiles,
                   mu, workers, semaphore, acquired, wg, enumerated, prev>>

\* s.wg.Wait(); return files, nil.
ScanWait ==
    /\ pc = "wait"
    /\ wg = 0
    /\ pc' = "done"
    /\ UNCHANGED <<chk, call, variant, directoryStructure, args, roots, include, ignore, run, idx, files, err, pending,
                   walkErr, dirFiles, mu, workers, semaphore, acquired, wg, enumerated,
                   opened, prev>>

\* The caller scans the same paths again with the same Scanner.
Rescan ==
    /\ pc = "done"
    /\ run < MaxRuns
    /\ run' = run + 1
    /\ prev' = [scanned |-> TRUE, files |-> files]
    /\ pc' = "scan"
    /\ roots' = args
    /\ idx' = 1
    /\ files' = <<>>
    /\ pending' = <<>>
    /\ walkErr' = "nil"
    /\ dirFiles' = <<>>
    /\ mu' = <<>>
    /\ workers' = <<>>
    /\ enumerated' = {}
    /\ opened' = {}
    /\ UNCHANGED <<chk, call, variant, directoryStructure, args, include, ignore,
                   err, semaphore, acquired, wg>>

(***************************************************************************)
(* Scanner.scanDirectory: the WalkDir callback and the return              *)
(***************************************************************************)

\* Verdict with an ignored directory entered instead of skipped.
VerdictEntersIgnored(root, path) ==
    LET relPath == Rel(root, path)
        d == Lookup(path)
    IN IF relPath = Dot THEN "descend"
       ELSE IF shouldIgnore(relPath) THEN (IF d.isDir THEN "descend" ELSE "skip")
       ELSE IF ~shouldInclude(relPath) THEN "skip"
       ELSE IF ~d.isDir THEN "dispatch"
       ELSE "descend"

\* The callback's verdict on an entry: "skip" (return nil or SkipDir
\* without dispatching), "dispatch" (start a worker), "descend".
Verdict(root, path) ==
    LET relPath == Rel(root, path)
        d == Lookup(path)
    IN IF relPath = Dot THEN "descend"
       ELSE IF shouldIgnore(relPath) THEN "skip"
       ELSE IF ~shouldInclude(relPath) THEN "skip"
       ELSE IF ~d.isDir THEN "dispatch"
       ELSE "descend"

\* Dispatch that waits for a free slot before it starts the goroutine.
DispatchWhenSlotFree(id) ==
    /\ semaphore < PoolSize
    /\ wg' = wg + 1
    /\ workers' = (id :> [pc |-> "start", file |-> EmptyFile]) @@ workers

\* s.wg.Add(1); go func() {...}(): the goroutine starts before its send
\* on the semaphore.
Dispatch(id) ==
    /\ wg' = wg + 1
    /\ workers' = (id :> [pc |-> "start", file |-> EmptyFile]) @@ workers

\* One call of the callback by WalkDir, and for a directory the callback
\* did not skip, the os.ReadDir that follows it.
WalkVisit ==
    /\ variant = "pool"
    /\ pc = "walk"
    /\ pending # <<>>
    /\ LET path == Head(pending)
           v == Verdict(roots[idx], path)
           id == <<idx, path>>
       IN /\ enumerated' = enumerated \cup {id}
          /\ IF v = "dispatch"
               THEN Dispatch(id)
               ELSE UNCHANGED <<wg, workers>>
          /\ IF v = "descend" /\ ~Lookup(path).readOK
               THEN /\ walkErr' = "readdir"
                    /\ pending' = <<>>
               ELSE /\ pending' = (IF v = "descend" THEN ReadDir(path) ELSE <<>>)
                                      \o Tail(pending)
                    /\ UNCHANGED walkErr
          /\ pc' = IF pending' = <<>> THEN "walkret" ELSE "walk"
    /\ UNCHANGED <<chk, call, variant, directoryStructure, args, roots, include, ignore, run, idx, files, err, dirFiles,
                   mu, semaphore, acquired, opened, prev>>

\* The values an unsynchronized read of scanDirectory's files can give
\* while workers append to it: the slice as it is or as it was.
RacyRead(fs) == {Take(fs, k) : k \in 0..Len(fs)}

\* return files, err in scanDirectory, and Scan's handling of the result.
WalkReturn ==
    /\ variant = "pool"
    /\ pc = "walkret"
    /\ IF walkErr # "nil"
         THEN /\ pc' = "failed"
              /\ err' = walkErr
              /\ files' = <<>>
              /\ UNCHANGED idx
         ELSE /\ \E got \in RacyRead(dirFiles[idx]) : files' = files \o got
              /\ idx' = idx + 1
              /\ pc' = LoopAt(idx + 1)
              /\ UNCHANGED err
    /\ UNCHANGED <<chk, call, variant, directoryStructure, args, roots, include, ignore, run, pending, walkErr, dirFiles,
                   mu, workers, semaphore, acquired, wg, enumerated, opened, prev>>

(***************************************************************************)
(* The worker goroutine of scanDirectory                                   *)
(***************************************************************************)

At(w, loc) == w \in DOMAIN workers /\ workers[w].pc = loc
Goto(w, loc) == workers' = [workers EXCEPT ![w].pc = loc]

\* The goroutines that have not called scanFile yet.  Until it calls
\* scanFile(path) a goroutine has used nothing of its own, so these are
\* interchangeable: the model records how many of them are past the send
\* on the semaphore (acquired), not which.
Started == {w \in DOMAIN workers : workers[w].pc = "start"}

\* Acquire on a channel that never fills.
AcquireUnbounded ==
    /\ acquired < Cardinality(Started)
    /\ semaphore' = semaphore + 1
    /\ acquired' = acquired + 1
    /\ UNCHANGED <<chk, call, variant, directoryStructure, args, roots, include, ignore, run, pc, idx, files, err, pending,
                   walkErr, dirFiles, mu, workers, wg, enumerated, opened,
                   prev>>

\* s.semaphore <- struct{}{} by a goroutine that has not sent yet: blocks
\* while the channel is full.
Acquire ==
    /\ acquired < Cardinality(Started)
    /\ semaphore < PoolSize
    /\ semaphore' = semaphore + 1
    /\ acquired' = acquired + 1
    /\ UNCHANGED <<chk, call, variant, directoryStructure, args, roots, include, ignore, run, pc, idx, files, err, pending,
                   walkErr, dirFiles, mu, workers, wg, enumerated, opened,
                   prev>>

\* A worker whose return after a scanFile error skips the deferred receive
\* from the semaphore.
WorkerScanFileKeepsSlot(w) ==
    /\ At(w, "start")
    /\ acquired > 0
    /\ acquired' = acquired - 1
    /\ LET r == scanFile(w[2])
       IN IF r.ok
            THEN /\ workers' = [workers EXCEPT
                                  ![w] = [pc |-> "lock", file |-> r.file]]
                 /\ UNCHANGED <<semaphore, wg>>
            ELSE /\ workers' = [workers EXCEPT
                                  ![w] = [pc |-> "done", file |-> r.file]]
                 /\ wg' = wg - 1
                 /\ UNCHANGED semaphore
    /\ opened' = opened \cup {w}
    /\ UNCHANGED <<chk, call, variant, directoryStructure, args, roots, include, ignore, run, pc, idx, files, err, pending,
                   walkErr, dirFiles, mu, enumerated, prev>>

\* file, err := s.scanFile(path), by a goroutine past the send.  On an
\* error the worker prints it and returns, which runs its two deferred
\* calls, <-s.semaphore and s.wg.Done(), back to back.
WorkerScanFile(w) ==
    /\ At(w, "start")
    /\ acquired > 0
    /\ acquired' = acquired - 1
    /\ LET r == scanFile(w[2])
       IN IF r.ok
            THEN /\ workers' = [workers EXCEPT
                                  ![w] = [pc |-> "lock", file |-> r.file]]
                 /\ UNCHANGED <<semaphore, wg>>
            ELSE /\ workers' = [workers EXCEPT
                                  ![w] = [pc |-> "done", file |-> r.file]]
                 /\ semaphore' = semaphore - 1
                 /\ wg' = wg - 1
    /\ opened' = opened \cup {w}
    /\ UNCHANGED <<chk, call, variant, directoryStructure, args, roots, include, ignore, run, pc, idx, files, err, pending,
                   walkErr, dirFiles, mu, enumerated, prev>>

\* Lock that does not wait for the holder.
LockWithoutWaiting(w) ==
    /\ At(w, "lock")
    /\ mu' = [mu EXCEPT ![w[1]] = w]
    /\ Goto(w, "append")
    /\ UNCHANGED <<chk, call, variant, directoryStructure, args, roots, include, ignore, run, pc, idx, files, err, pending,
                   walkErr, dirFiles, semaphore, acquired, wg, enumerated,
                   opened, prev>>

\* mu.Lock()
Lock(w) ==
    /\ At(w, "lock")
    /\ mu[w[1]] = NoOne
    /\ mu' = [mu EXCEPT ![w[1]] = w]
    /\ Goto(w, "append")
    /\ UNCHANGED <<chk, call, variant, directoryStructure, args, roots, include, ignore, run, pc, idx, files, err, pending,
                   walkErr, dirFiles, semaphore, acquired, wg, enumerated, opened, prev>>

\* files = append(files, file)
AppendFile(w) ==
    /\ At(w, "append")
    /\ dirFiles' = [dirFiles EXCEPT ![w[1]] = Append(@, workers[w].file)]
    /\ Goto(w, "unlock")
    /\ UNCHANGED <<chk, call, variant, directoryStructure, args, roots, include, ignore, run, pc, idx, files, err, pending,
                   walkErr, mu, semaphore, acquired, wg, enumerated, opened, prev>>

\* mu.Unlock(), then the progress bar.
Unlock(w) ==
    /\ At(w, "unlock")
    /\ mu' = [mu EXCEPT ![w[1]] = NoOne]
    /\ Goto(w, "release")
    /\ UNCHANGED <<chk, call, variant, directoryStructure, args, roots, include, ignore, run, pc, idx, files, err, pending,
                   walkErr, dirFiles, semaphore, acquired, wg, enumerated, opened, prev>>

\* A worker that returns without the deferred s.wg.Done().
WorkerReturnWithoutDone(w) ==
    /\ At(w, "release")
    /\ semaphore' = semaphore - 1
    /\ Goto(w, "done")
    /\ UNCHANGED <<chk, call, variant, directoryStructure, args, roots, include, ignore, run, pc, idx, files, err, pending,
                   walkErr, dirFiles, mu, acquired, wg, enumerated, opened,
                   prev>>

\* The worker returns: the deferred <-s.semaphore, then the deferred
\* s.wg.Done().
WorkerReturn(w) ==
    /\ At(w, "release")
    /\ semaphore' = semaphore - 1
    /\ wg' = wg - 1
    /\ Goto(w, "done")
    /\ UNCHANGED <<chk, call, variant, directoryStructure, args, roots, include, ignore, run, pc, idx, files, err, pending,
                   walkErr, dirFiles, mu, acquired, enumerated, opened,
                   prev>>

(***************************************************************************)
(* The sequential Scanner of config.go: Scan, scanPath                     *)
(***************************************************************************)

seqShouldIgnore(path) ==
    \E k \in 1..Len(ignore) :
        LET m == DoublestarMatchErr(ignore[k], path)
        IN m.err = "nil" /\ m.matched

seqShouldInclude(path) ==
    \/ Len(include) = 0
    \/ \E k \in 1..Len(include) :
          LET m == DoublestarMatchErr(include[k], path)
          IN m.err = "nil" /\ m.matched

\* os.ReadFile(path) succeeds.
Readable(path) == Statable(path) /\ Lookup(path).readOK

\* scanPath(path) starts: WalkDir's Lstat of the root.  When it fails the
\* callback gets the error and returns it.
SeqEnterPath ==
    /\ variant = "seq"
    /\ pc = "stat"
    /\ IF Statable(roots[idx])
         THEN /\ pc' = "walk"
              /\ pending' = <<roots[idx]>>
              /\ walkErr' = "nil"
         ELSE /\ pc' = "walkret"
              /\ pending' = <<>>
              /\ walkErr' = "lstat"
    /\ dirFiles' = (idx :> <<>>) @@ dirFiles
    /\ UNCHANGED <<chk, call, variant, directoryStructure, args, roots, include, ignore, run, idx, files, err, mu,
                   workers, semaphore, acquired, wg, enumerated, opened, prev>>

\* The callback's verdict in scanPath: "skip" (ignored), "pass" (fails the
\* include check: return nil, a directory is still entered), "record".
SeqVerdict(root, path) ==
    LET relPath == Rel(root, path)
    IN IF seqShouldIgnore(relPath) THEN "skip"
       ELSE IF ~seqShouldInclude(relPath) THEN "pass"
       ELSE "record"

\* The record with a directory's Content filled in like a file's.
seqFileFillsDirectories(relPath, d) ==
    File(relPath, IF d.isDir THEN relPath ELSE d.content, Len(d.content),
         d.isDir)

\* The record scanPath's callback builds for an entry: Path and IsDir, and
\* for a regular file the Content read and the Size.
seqFile(relPath, d) ==
    IF d.isDir THEN File(relPath, <<>>, 0, TRUE)
    ELSE File(relPath, d.content, Len(d.content), FALSE)

\* One call of scanPath's callback, and the os.ReadDir that follows it for
\* a directory the callback did not skip.
SeqVisit ==
    /\ variant = "seq"
    /\ pc = "walk"
    /\ pending # <<>>
    /\ LET path == Head(pending)
           d == Lookup(path)
           relPath == Rel(roots[idx], path)
           v == SeqVerdict(roots[idx], path)
           reads == v = "record" /\ ~d.isDir
           failed == \/ reads /\ ~Readable(path)
                     \/ v # "skip" /\ d.isDir /\ ~d.readOK
           file == seqFile(relPath, d)
       IN /\ enumerated' = enumerated \cup {<<idx, path>>}
          /\ opened' = IF reads THEN opened \cup {<<idx, path>>} ELSE opened
          /\ IF failed
               THEN /\ walkErr' = "read"
                    /\ pending' = <<>>
                    /\ UNCHANGED dirFiles
               ELSE /\ dirFiles' = IF v = "record"
                                     THEN [dirFiles EXCEPT ![idx] = Append(@, file)]
                                     ELSE dirFiles
                    /\ pending' = (IF v # "skip" /\ d.isDir THEN ReadDir(path)
                                   ELSE <<>>) \o Tail(pending)
                    /\ UNCHANGED walkErr
          /\ pc' = IF pending' = <<>> THEN "walkret" ELSE "walk"
    /\ UNCHANGED <<chk, call, variant, directoryStructure, args, roots, include, ignore, run, idx, files, err, mu,
                   workers, semaphore, acquired, wg, prev>>

\* filepath.Dir on a cleaned relative path.
Dir(p) == IF SlashAt(p) = {} THEN Dot ELSE Take(p, Max(SlashAt(p)) - 1)

\* The currentPath values of buildDirectoryTree's loop over the parts of
\* dir: dir and every directory above it.
ParentPaths(dir) == {Take(dir, k - 1) : k \in SlashAt(dir)} \cup {dir}

\* The records of fs whose filepath.Dir is d, in order.
RECURSIVE InDirectory(_, _)
InDirectory(fs, d) ==
    IF fs = <<>> THEN <<>>
    ELSE (IF Dir(Head(fs).Path) = d THEN <<Head(fs)>> ELSE <<>>)
             \o InDirectory(Tail(fs), d)

\* buildDirectoryTree's fileMap when its loops are over: one synthesized
\* directory record per parent path of a nested file, holding the files of
\* that directory as Children (sort.Slice then orders them by Path).
TreeFileMap(fs) ==
    LET nested == {k \in 1..Len(fs) : Dir(fs[k].Path) # Dot}
        dirs == UNION {ParentPaths(Dir(fs[k].Path)) : k \in nested}
    IN [d \in dirs |->
           [File(d, <<>>, 0, TRUE) EXCEPT !.Children = InDirectory(fs, d)]]

\* buildDirectoryTree(files): the local roots, which gets a copy of each
\* record whose Dir is "."; the records of fileMap are not linked to it.
buildDirectoryTree(fs) == InDirectory(fs, Dot)

\* scanPath returns, and Scan appends what it got or returns the error.
SeqWalkReturn ==
    /\ variant = "seq"
    /\ pc = "walkret"
    /\ IF walkErr # "nil"
         THEN /\ pc' = "failed"
              /\ err' = walkErr
              /\ files' = <<>>
              /\ UNCHANGED idx
         ELSE /\ files' = files \o (IF directoryStructure
                                       THEN buildDirectoryTree(dirFiles[idx])
                                       ELSE dirFiles[idx])
              /\ idx' = idx + 1
              /\ pc' = LoopAt(idx + 1)
              /\ UNCHANGED err
    /\ UNCHANGED <<chk, call, variant, directoryStructure, args, roots, include, ignore, run, pending, walkErr,
                   dirFiles, mu, workers, semaphore, acquired, wg, enumerated,
                   opened, prev>>

\* The orders sort.Slice (not stable) can leave the records of fs with
\* indices I in: every arrangement that is non-decreasing in Path.
RECURSIVE Arrangements(_, _)
Arrangements(fs, I) ==
    IF I = {} THEN {<<>>}
    ELSE UNION {{<<fs[m]>> \o t : t \in Arrangements(fs, I \ {m})} :
                  m \in {k \in I : \A j \in I : ~StrLess(fs[j].Path, fs[k].Path)}}

\* sort.Slice(files, by Path); return files, nil.
SeqSortAndReturn ==
    /\ variant = "seq"
    /\ pc = "sort"
    /\ files' \in Arrangements(files, 1..Len(files))
    /\ pc' = "done"
    /\ UNCHANGED <<chk, call, variant, directoryStructure, args, roots, include, ignore, run, idx, err, pending,
                   walkErr, dirFiles, mu, workers, semaphore, acquired, wg,
                   enumerated, opened, prev>>

(***************************************************************************)
(* Specifications                                                          *)
(***************************************************************************)

SeqStep ==
    \/ SeqEnterPath
    \/ SeqVisit
    \/ SeqWalkReturn
    \/ SeqSortAndReturn

ScanStep ==
    \/ ScanStatFails
    \/ ScanEnterDirectory
    \/ ScanRootFile
    \/ WalkVisit
    \/ WalkReturn
    \/ ScanWait

CallStep ==
    \/ ShouldIncludeReturns
    \/ RunReturns
    \/ CountLinesReturns

Next ==
    \/ ScanCalled
    \/ ScanStep
    \/ SeqStep
    \/ CallStep
    \/ CheckStep
    \/ Rescan
    \/ Acquire
    \/ \E w \in DOMAIN workers : WorkerScanFile(w)
    \/ \E w \in DOMAIN workers : Lock(w)
    \/ \E w \in DOMAIN workers : AppendFile(w)
    \/ \E w \in DOMAIN workers : Unlock(w)
    \/ \E w \in DOMAIN workers : WorkerReturn(w)

Spec == Init /\ [][Next]_vars

\* Scans of the directory that holds more files than the pool has slots.
SpecPool == InitPool /\ [][Next]_vars

\* A step of the goroutine that runs Scan or of one of its workers.
Progress ==
    \/ ScanCalled
    \/ ScanStep
    \/ SeqStep
    \/ Acquire
    \/ \E w \in DOMAIN workers : WorkerScanFile(w)
    \/ \E w \in DOMAIN workers : Lock(w)
    \/ \E w \in DOMAIN workers : AppendFile(w)
    \/ \E w \in DOMAIN workers : Unlock(w)
    \/ \E w \in DOMAIN workers : WorkerReturn(w)

\* Checks of the first changes and of the scanned files.
FairCheckStarts ==
    {CheckOf("pattern", SubSeq(Changes, 1, 3)),
     CheckOf("secretlint", ScannedFiles)}

\* The scans of SpecPool, where the Scan of the wide directory is the last
\* one its caller makes.
InitFair ==
    \/ \E v \in Variants :
           /\ StartAt(MaxRuns, v, <<W>>, <<>>, <<>>)
           /\ directoryStructure \in TreeOptions(v)
    \/ \E v \in Variants, rs \in WideRootLists \ {<<W>>} :
           Start(v, rs, <<>>, <<>>) /\ directoryStructure \in TreeOptions(v)
    \/ InitNoPaths
    \/ NoScan /\ call \in Calls /\ chk = NoCheck
    \/ NoScan /\ call = NoCall /\ chk \in FairCheckStarts

\* These scans under the Go scheduler, which does not leave every runnable
\* goroutine waiting for ever: while some goroutine of the scan can take a
\* step, one of them eventually does.
SpecFair == InitFair /\ [][Next]_vars /\ WF_vars(Progress)

(***************************************************************************)
(* Vocabulary of the properties                                            *)
(***************************************************************************)

Ids == DOMAIN workers
PathsOf(fs) == [k \in 1..Len(fs) |-> fs[k].Path]
Holds(fs, path) == \E k \in 1..Len(fs) : fs[k].Path = path

\* Scan has returned to its caller.
Returned == pc \in {"done", "failed"}

\* scanDirectory call i has returned to Scan.
WalkReturned(i) == i < idx \/ pc \in {"wait", "done"}

\* The workers that hold a semaphore slot after scanFile returned.
PostScan == {w \in Ids : workers[w].pc \in {"lock", "append", "unlock", "release"}}
Unfinished == {w \in Ids : workers[w].pc # "done"}
SlotHolders == acquired + Cardinality(PostScan)

\* The workers in the section between mu.Lock() and mu.Unlock() of walk i.
InAppend(i) == {w \in Ids : w[1] = i /\ workers[w].pc \in {"append", "unlock"}}

\* The regular files below a directory.
FilesBelow(root) == {q \in Paths : Inside(root, q) /\ ~Lookup(q).isDir}

\* The directories strictly between root and path.
DirsBetween(root, path) ==
    {d \in Paths : Inside(root, d) /\ Inside(d, path)}

IsDirRoot(i) == Statable(roots[i]) /\ Lookup(roots[i]).isDir

\* The checks and the read of the Scanner in use, and the Path it gives the
\* record of the file at path q found under root i.
Ignored(relPath) ==
    IF variant = "pool" THEN shouldIgnore(relPath) ELSE seqShouldIgnore(relPath)
Included(relPath) ==
    IF variant = "pool" THEN shouldInclude(relPath) ELSE seqShouldInclude(relPath)
ReadSucceeds(q) == IF variant = "pool" THEN scanFile(q).ok ELSE Readable(q)
RecordPath(i, q) == IF variant = "pool" THEN q ELSE Rel(roots[i], q)

\* A library function of this name has returned.
Called(fn) == call.fn = fn /\ call.returned

\* The path matches one of the glob patterns (doublestar.Match on the whole
\* slash-separated path, the match PatternMatcher makes).
GlobMatchesAny(patterns, path) ==
    \E k \in 1..Len(patterns) : DoublestarMatch(patterns[k], ToSlash(path))

\* The path matches one of the patterns in the matcher's case mode.
MatchesAnyIn(pm, patterns, path) ==
    IF pm.caseSensitive THEN GlobMatchesAny(patterns, path)
    ELSE GlobMatchesAny([k \in 1..Len(patterns) |-> ToLower(patterns[k])],
                        ToLower(path))

\* Two pattern lists that differ at most in the case of letters.
LowerAll(patterns) == [k \in 1..Len(patterns) |-> ToLower(patterns[k])]
SameButCase(ps, qs) == LowerAll(ps) = LowerAll(qs)

\* The patterns of a list that have no syntax error, in order.
RECURSIVE WellFormed(_)
WellFormed(patterns) ==
    IF patterns = <<>> THEN <<>>
    ELSE IF Malformed(Head(patterns)) THEN WellFormed(Tail(patterns))
    ELSE <<Head(patterns)>> \o WellFormed(Tail(patterns))

\* The match the Scanner in use makes of one ignore pattern.
PatternIgnores(pattern, relPath) ==
    IF variant = "pool" THEN IgnoreMatches(ToSlash(pattern), ToSlash(relPath))
    ELSE DoublestarMatch(pattern, relPath)

\* The file at q under root i passes the ignore check and so does every
\* directory between it and the root.
NotIgnoredBelow(i, q) ==
    /\ ~Ignored(Rel(roots[i], q))
    /\ \A d \in DirsBetween(roots[i], q) : ~Ignored(Rel(roots[i], d))

\* The entries the walk of root i can meet.
Under(i) == {q \in Paths : Inside(roots[i], q)}

(***************************************************************************)
(* Properties                                                              *)
(***************************************************************************)

\* C1: when scanDirectory has returned to Scan, every worker it started
\* has completed, and the slice Scan got from it holds a record for each
\* dispatched file whose scanFile succeeds.
C1_WalkJoinsItsWorkers ==
    \A w \in Ids :
        WalkReturned(w[1]) =>
            /\ workers[w].pc = "done"
            /\ scanFile(w[2]).ok => Holds(files, w[2])

\* C2: the slice a successful Scan returns is sorted by Path in
\* non-decreasing byte order.
C2_ResultSorted ==
    pc = "done" =>
        \A j, k \in 1..Len(files) :
            j < k => ~StrLess(files[k].Path, files[j].Path)

\* C3: a second Scan of the same unmodified tree with more files than the
\* pool has slots returns the same sequence of paths as the first.
C3_SecondScanSame ==
    (/\ pc = "done"
     /\ prev.scanned
     /\ \E i \in 1..Len(roots) : Cardinality(FilesBelow(roots[i])) > PoolSize)
        => PathsOf(files) = PathsOf(prev.files)

\* C4: a readable regular file that matches an include pattern, is not
\* ignored and has no ignored ancestor is in the result of a successful
\* Scan, also when one of its ancestor directories fails the include check.
C4_IncludeFailingDirDescended ==
    pc = "done" =>
        \A i \in 1..Len(roots) : IsDirRoot(i) =>
            \A q \in FilesBelow(roots[i]) :
                (/\ ReadSucceeds(q)
                 /\ Included(Rel(roots[i], q))
                 /\ ~Ignored(Rel(roots[i], q))
                 /\ \A d \in DirsBetween(roots[i], q) :
                        ~Ignored(Rel(roots[i], d))
                 /\ \E d \in DirsBetween(roots[i], q) :
                        ~Included(Rel(roots[i], d)))
                    => Holds(files, RecordPath(i, q))

\* C5: nothing below a directory that matches an ignore pattern is ever
\* handed to the callback, dispatched to a worker or opened by scanFile
\* during the walk of the root the directory was found under.
C5_IgnoredDirPruned ==
    \A i \in 1..Len(roots) : IsDirRoot(i) =>
        \A d \in Paths :
            (/\ Lookup(d).isDir
             /\ Inside(roots[i], d)
             /\ Ignored(Rel(roots[i], d)))
                => \A q \in Paths : Inside(d, q) =>
                       /\ <<i, q>> \notin enumerated
                       /\ <<i, q>> \notin Ids
                       /\ <<i, q>> \notin opened

\* C5 witness: an ignored directory with an unreadable file below it was
\* visited and the scan ended without error.
C5_Witness ==
    /\ pc = "done"
    /\ roots = <<R>>
    /\ Ignored(Rel(R, RV))
    /\ <<1, RV>> \in enumerated
    /\ ~ReadSucceeds(Join(RV, <<"x">>))

\* C6: when the roots are directories and the read of one file failed,
\* Scan returns without error and its result holds a record for every
\* other file it read.
C6_FileErrorOnlyOmitsThatFile ==
    (/\ Returned
     /\ \A i \in 1..Len(roots) : IsDirRoot(i)
     /\ \E w \in opened : ~ReadSucceeds(w[2]))
        => /\ pc = "done"
           /\ \A w \in opened :
                  ReadSucceeds(w[2]) => Holds(files, RecordPath(w[1], w[2]))

\* C7: when Scan returns an error because a root cannot be stat'ed, no
\* worker was started during the call and none is still running.
C7_StatErrorBeforeAnyWorker ==
    (pc = "failed" /\ err = "stat") => Ids = {}

\* C8: at most PoolSize workers hold a semaphore slot, so at most PoolSize
\* are inside scanFile.
C8_AtMostPoolSizeInScanFile ==
    /\ acquired <= PoolSize
    /\ SlotHolders <= PoolSize
    /\ semaphore = SlotHolders

\* C8 witness: every slot is taken by a worker inside scanFile and another
\* worker waits for one.
C8_Witness ==
    /\ acquired = PoolSize
    /\ Cardinality(Started) > acquired

\* C9 as claimed: the workers dispatched and not yet finished never
\* outnumber the pool's slots.
C9_DispatchedWithinPool == Cardinality(Unfinished) <= PoolSize

\* C9 amended: a full pool blocks workers, not the walk: the walk can take
\* its next step whatever the semaphore holds, and whenever more workers
\* are unfinished than the pool has slots, the surplus has not passed the
\* send on the semaphore.
C9_PoolBlocksWorkersOnly ==
    /\ (variant = "pool" /\ pc = "walk" => ENABLED WalkVisit)
    /\ Cardinality(Unfinished) - Cardinality(Started) + acquired <= PoolSize

\* C9 witness: the pool is full, the walk is still going, and more workers
\* are unfinished than the pool has slots.
C9_Witness ==
    /\ semaphore = PoolSize
    /\ Cardinality(Unfinished) > PoolSize

\* C10: per call of scanDirectory (each has its own mu), at most one
\* worker is between Lock and Unlock, it is the holder of mu, no worker
\* holds mu before its scanFile has returned, and once the walk is over
\* and its workers are finished its collection holds exactly one record
\* per worker whose scanFile succeeded.
C10_AppendUnderLock ==
    \A i \in DOMAIN mu :
        /\ Cardinality(InAppend(i)) <= 1
        /\ \A w \in InAppend(i) : mu[i] = w
        /\ mu[i] # NoOne => mu[i] \in InAppend(i)
        /\ (WalkReturned(i) /\ \A w \in Ids : w[1] = i => workers[w].pc = "done")
              => /\ Len(dirFiles[i]) =
                      Cardinality({w \in Ids : w[1] = i /\ scanFile(w[2]).ok})
                 /\ \A w \in Ids :
                        (w[1] = i /\ scanFile(w[2]).ok) => Holds(dirFiles[i], w[2])

\* C10 witness: two workers of one walk succeeded, one waited for the lock
\* while the other held it, and both records are in the collection.
C10_Witness ==
    \E i \in DOMAIN mu :
        /\ Len(dirFiles[i]) = 1
        /\ InAppend(i) # {}
        /\ \E w \in Ids : w[1] = i /\ workers[w].pc = "lock"

\* C11: a path that matches an ignore pattern is never included by
\* PatternMatcher.ShouldInclude, whatever the include patterns, and an
\* entry whose path under its root matches an ignore pattern is never in
\* what the walk of that root collects.
C11_IgnoreWins ==
    /\ (/\ Called("ShouldInclude")
        /\ GlobMatchesAny(call.in.pm.ignorePatterns, call.in.path))
          => call.out = FALSE
    /\ \A i \in DOMAIN dirFiles : \A q \in Under(i) :
          GlobMatchesAny(ignore, Rel(roots[i], q))
              => ~Holds(dirFiles[i], RecordPath(i, q))

\* C12: with no include patterns ShouldInclude(P) is true exactly when P
\* matches no ignore pattern; with include patterns a P that is not
\* ignored is included exactly when it matches at least one of them.  The
\* worker-pool Scanner's shouldInclude is the same union.
C12_IncludeIsUnion ==
    /\ Called("ShouldInclude") =>
          LET pm == call.in.pm
              ignored == MatchesAnyIn(pm, pm.ignorePatterns, call.in.path)
              included == MatchesAnyIn(pm, pm.includePatterns, call.in.path)
          IN /\ Len(pm.includePatterns) = 0 => (call.out <=> ~ignored)
             /\ (Len(pm.includePatterns) > 0 /\ ~ignored)
                   => (call.out <=> included)
    /\ \A i \in 1..Len(roots) : \A q \in Under(i) :
          shouldInclude(Rel(roots[i], q))
              <=> (Len(include) = 0 \/ GlobMatchesAny(include, Rel(roots[i], q)))

\* C12 witness: a path that is not ignored and matches one of two include
\* patterns but not the other was included.
C12_Witness ==
    /\ Called("ShouldInclude")
    /\ call.out = TRUE
    /\ Len(call.in.pm.includePatterns) = 2
    /\ \E k \in 1..2 :
          ~MatchesAnyIn(call.in.pm, <<call.in.pm.includePatterns[k]>>, call.in.path)

\* C13: in case-insensitive mode the result of ShouldInclude is the same
\* for every path and every include and ignore list that differ from the
\* call's only in the case of letters; path A/b with the single include
\* pattern a/* is included in that mode and not in case-sensitive mode.
C13_CaseFoldsPathAndPatterns ==
    Called("ShouldInclude") =>
        LET pm == call.in.pm
        IN /\ ~pm.caseSensitive =>
                 \A inc \in PatternLists : SameButCase(inc, pm.includePatterns) =>
                 \A ign \in PatternLists : SameButCase(ign, pm.ignorePatterns) =>
                 \A path \in MatcherPaths :
                     ToLower(path) = ToLower(call.in.path) =>
                         ShouldInclude(NewPatternMatcher(inc, ign, FALSE), path)
                             = call.out
           /\ (/\ call.in.path = <<"A", "/", "b">>
               /\ pm.includePatterns = << <<"a", "/", "*">> >>
               /\ pm.ignorePatterns = <<>>)
                 => (call.out <=> ~pm.caseSensitive)

\* C13 witness: in case-insensitive mode the upper-case path A/b was
\* included by the lower-case pattern a/*.
C13_Witness ==
    /\ Called("ShouldInclude")
    /\ ~call.in.pm.caseSensitive
    /\ call.in.path = <<"A", "/", "b">>
    /\ call.in.pm.includePatterns = << <<"a", "/", "*">> >>
    /\ call.out = TRUE

\* C14 as claimed: the result of ShouldInclude equals its result with the
\* malformed patterns removed from both lists.
C14_AsIfPatternRemoved ==
    Called("ShouldInclude") =>
        LET pm == call.in.pm
        IN call.out = ShouldInclude(
                          NewPatternMatcher(WellFormed(pm.includePatterns),
                                            WellFormed(pm.ignorePatterns),
                                            pm.caseSensitive),
                          call.in.path)

\* C14 amended: a malformed pattern matches nothing and the other patterns
\* of its list are still tried: the result equals the result with the
\* malformed patterns removed, except that an include list made only of
\* malformed patterns includes nothing; the Scanners' checks ignore and
\* include exactly as their well-formed patterns say, and an include list
\* with only malformed patterns admits no entry.
C14_MalformedMatchesNothing ==
    /\ Called("ShouldInclude") =>
          LET pm == call.in.pm
              inc == WellFormed(pm.includePatterns)
              ign == WellFormed(pm.ignorePatterns)
          IN call.out =
                IF Len(pm.includePatterns) > 0 /\ Len(inc) = 0 THEN FALSE
                ELSE ShouldInclude(NewPatternMatcher(inc, ign, pm.caseSensitive),
                                   call.in.path)
    /\ \A i \in 1..Len(roots) : \A q \in Under(i) :
          LET relPath == Rel(roots[i], q)
              inc == WellFormed(include)
              ign == WellFormed(ignore)
          IN /\ Ignored(relPath)
                   <=> \E k \in 1..Len(ign) : PatternIgnores(ign[k], relPath)
             /\ Included(relPath)
                   <=> \/ Len(include) = 0
                       \/ \E k \in 1..Len(inc) : DoublestarMatch(inc[k], relPath)

\* C14 witness: a call whose ignore list starts with a malformed pattern
\* returned false because of the pattern after it.
C14_Witness ==
    /\ Called("ShouldInclude")
    /\ Len(call.in.pm.ignorePatterns) = 2
    /\ Malformed(call.in.pm.ignorePatterns[1])
    /\ call.in.pm.includePatterns = <<>>
    /\ call.out = FALSE

\* C15: a record of a regular file carries the file's size; it has empty
\* content when the size exceeds MaxFileSize and the file's bytes
\* otherwise; a file larger than MaxFileSize is never read; and with no
\* include patterns a successful Scan of a directory returns a record for
\* every oversized file that is not ignored.
C15_SizeCeiling ==
    /\ \A i \in DOMAIN dirFiles : \A q \in FilesBelow(roots[i]) :
          \A k \in 1..Len(dirFiles[i]) :
              dirFiles[i][k].Path = RecordPath(i, q) =>
                  /\ dirFiles[i][k].Size = Len(Lookup(q).content)
                  /\ dirFiles[i][k].Content =
                        IF Len(Lookup(q).content) > MaxFileSize THEN <<>>
                        ELSE Lookup(q).content
    /\ variant = "seq" =>
          \A w \in opened : Len(Lookup(w[2]).content) <= MaxFileSize
    /\ (pc = "done" /\ include = <<>>) =>
          \A i \in 1..Len(roots) : IsDirRoot(i) =>
              \A q \in FilesBelow(roots[i]) :
                  (/\ Len(Lookup(q).content) > MaxFileSize
                   /\ Lookup(q).statOK
                   /\ NotIgnoredBelow(i, q))
                      => Holds(files, RecordPath(i, q))

\* C16: the Path of every record a walk collects, and of every record in
\* the result of a successful Scan, is the path of an entry relative to
\* the root it was found under, without the root in front.
C16_PathsRelativeToRoot ==
    /\ \A i \in DOMAIN dirFiles : \A k \in 1..Len(dirFiles[i]) :
          \E q \in Under(i) \cup {roots[i]} :
              dirFiles[i][k].Path = Rel(roots[i], q)
    /\ pc = "done" =>
          \A k \in 1..Len(files) :
              \E i \in 1..Len(roots) : \E q \in Under(i) \cup {roots[i]} :
                  files[k].Path = Rel(roots[i], q)

\* C17: no two records of the result of a successful Scan have the same
\* Path, whatever the list of roots.
C17_PathsUnique ==
    pc = "done" =>
        \A j, k \in 1..Len(files) : j # k => files[j].Path # files[k].Path

\* The number of records with this Path in a list of records and, one
\* level down, in their Children.
RECURSIVE Occurrences(_, _)
Occurrences(fs, path) ==
    IF fs = <<>> THEN 0
    ELSE (IF Head(fs).Path = path THEN 1 ELSE 0)
         + Occurrences(Head(fs).Children, path)
         + Occurrences(Tail(fs), path)

\* C18: when the tree view is on and Scan of one root has succeeded, every
\* path of the flat list the walk collected occurs exactly once in the
\* returned tree, at the top level or under some record's Children.
C18_TreeHoldsEveryPathOnce ==
    (/\ variant = "seq"
     /\ directoryStructure
     /\ pc = "done"
     /\ Len(roots) = 1)
        => \A k \in 1..Len(dirFiles[1]) :
               Occurrences(files, dirFiles[1][k].Path) = 1

\* C19: a Scan called with an empty list of paths returns without error,
\* has scanned the single root "." and its result holds the file f of the
\* current directory.
C19_EmptyPathsScanDot ==
    (Len(args) = 0 /\ Returned) =>
        /\ pc = "done"
        /\ roots = <<Dot>>
        /\ <<1, Dot>> \in enumerated
        /\ Holds(files, F)

\* C20: CountLines returns 0 for empty content and otherwise the number
\* of newline bytes, plus one when the last byte is not a newline; the
\* contents "a\nb" and "a\nb\n" both have 2 lines.
C20_CountLines ==
    Called("CountLines") =>
        LET content == call.in
            newlines == Cardinality({k \in 1..Len(content) : content[k] = NL})
        IN /\ content = <<>> => call.out = 0
           /\ (content # <<>> /\ content[Len(content)] = NL)
                 => call.out = newlines
           /\ (content # <<>> /\ content[Len(content)] # NL)
                 => call.out = newlines + 1
           /\ content \in {<<"a", NL, "a">>, <<"a", NL, "a", NL>>}
                 => call.out = 2

\* C20 witness: CountLines returned 2 for a content of two lines that
\* ends with a newline.
C20_Witness ==
    /\ Called("CountLines")
    /\ call.in = <<"a", NL, "a", NL>>
    /\ call.out = 2

\* The positions of a stage in the stages run went through.
StageAt(stage) == {k \in 1..Len(call.out) : call.out[k] = stage}

\* C21: a run with --no-security-check never calls runSecurityCheck; a run
\* without the flag and with security checking enabled in the
\* configuration calls it after the files were collected and before
\* formatOutput.
C21_SecurityCheckFollowsFlag ==
    Called("run") =>
        /\ call.in.noSecurityCheck => StageAt("runSecurityCheck") = {}
        /\ (/\ ~call.in.noSecurityCheck
            /\ call.in.enabledInConfig
            /\ call.in.failing # "processLocalFiles")
              => /\ StageAt("runSecurityCheck") # {}
                 /\ \A s \in StageAt("runSecurityCheck") :
                        \A f \in StageAt("formatOutput") : s < f

\* An ignore pattern with no leading "/" or "**/".
Bare(pattern) ==
    ~HasPrefix(pattern, Slash) /\ ~HasPrefix(pattern, StarStarSlash)

\* C22: a file that a bare ignore pattern matches at some depth below its
\* root (the pattern with "**/" in front matches the file's relative path)
\* is not in what the walk of that root collects.
C22_BarePatternAnyDepth ==
    \A i \in DOMAIN dirFiles : \A q \in FilesBelow(roots[i]) :
        (\E k \in 1..Len(ignore) :
            /\ Bare(ignore[k])
            /\ DoublestarMatch(NormalizePattern(ignore[k]), Rel(roots[i], q)))
          => ~Holds(dirFiles[i], RecordPath(i, q))

\* C23: no record of what a walk collects, and none of the scan result, has
\* the path "." of the root itself, and the root directory of a walk is
\* entered whatever the patterns say about ".": when the walk has returned
\* without error, each entry directly in the root was visited.
C23_RootEntrySkipped ==
    /\ ~Holds(files, Dot)
    /\ \A i \in DOMAIN dirFiles :
          /\ ~Holds(dirFiles[i], Dot)
          /\ (IsDirRoot(i) /\ WalkReturned(i))
                => \A q \in ChildrenOf(roots[i]) : <<i, q>> \in enumerated

\* C24: in the scan result and in what each walk collects, a record with
\* IsDir = TRUE has empty Content, and when the tree view is off no record
\* has Children.
C24_DirectoriesHaveNoContent ==
    \A fs \in {files} \cup {dirFiles[i] : i \in DOMAIN dirFiles} :
        \A k \in 1..Len(fs) :
            /\ fs[k].IsDir => fs[k].Content = <<>>
            /\ ~directoryStructure => fs[k].Children = <<>>

\* A flat scan has returned a result that holds a directory record.
C24_Witness ==
    /\ pc = "done"
    /\ ~directoryStructure
    /\ \E k \in 1..Len(files) : files[k].IsDir /\ files[k].Path # Dot

\* The records of a tree: those of the list and of every Children list
\* below them.
RECURSIVE TreeRecords(_)
TreeRecords(fs) ==
    {fs[k] : k \in 1..Len(fs)}
        \cup UNION {TreeRecords(fs[k].Children) : k \in 1..Len(fs)}

\* C25: when the tree view is on and Scan of one root has succeeded, for
\* every collected file below some directory, buildDirectoryTree made a
\* directory record for the file's directory and for each directory above
\* it, the returned tree reaches a directory record of each of them, and
\* the record of the file's directory has the file among its Children.
C25_TreeReachesSynthesizedParents ==
    (/\ variant = "seq"
     /\ directoryStructure
     /\ pc = "done"
     /\ Len(roots) = 1)
        => \A k \in 1..Len(dirFiles[1]) :
             LET f == dirFiles[1][k]
             IN (~f.IsDir /\ Dir(f.Path) # Dot) =>
                  /\ ParentPaths(Dir(f.Path))
                        \subseteq DOMAIN TreeFileMap(dirFiles[1])
                  /\ \A d \in ParentPaths(Dir(f.Path)) :
                        \E r \in TreeRecords(files) : r.Path = d /\ r.IsDir
                  /\ \E r \in TreeRecords(files) :
                        /\ r.Path = Dir(f.Path)
                        /\ Holds(r.Children, f.Path)

\* C26: the slots held in the semaphore are as many as the workers between
\* their send on it and their deferred receive, whether scanFile succeeded
\* or failed; so when no worker is unfinished, and in particular when Scan
\* has returned from its wait, the semaphore is empty.
C26_EveryWorkerReleasesItsSlot ==
    /\ semaphore = acquired + Cardinality(PostScan)
    /\ semaphore >= 0
    /\ Unfinished = {} => semaphore = 0
    /\ pc = "done" => semaphore = 0

\* C26 witness: Scan has returned, all its workers are finished, and the
\* scanFile of one of them failed.
C26_Witness ==
    /\ pc = "done"
    /\ variant = "pool"
    /\ Unfinished = {}
    /\ \E w \in Ids : workers[w].pc = "done" /\ ~scanFile(w[2]).ok
    /\ \E w \in Ids : workers[w].pc = "done" /\ scanFile(w[2]).ok

\* C27: under fair scheduling a Scan that was called eventually returns,
\* and the workers it started eventually have all finished.
C27_ScanTerminates ==
    []<>(pc # "idle" => Returned /\ Unfinished = {})

\* C27 witness: Scan has returned from its wait after it started more
\* workers than the pool has slots, and the scanFile of some of them failed.
C27_Witness ==
    /\ pc = "done"
    /\ Cardinality(Ids) > PoolSize
    /\ Unfinished = {}
    /\ \E w \in Ids : ~scanFile(w[2]).ok

\* The issues Check is to return for an input: what checkFile finds, and
\* nothing for a directory or when createTempFile or checkFile fails
\* (secretlint Checker).
IssuesOf(f) ==
    IF chk.kind = "secretlint" /\ (f.IsDir \/ f.temp # "ok" \/ f.check # "ok")
      THEN <<>>
      ELSE checkFile(f)

\* How often x occurs in a sequence.
Count(s, x) == Cardinality({k \in 1..Len(s) : s[k] = x})

\* How often x occurs in the issues of the inputs from position k on.
RECURSIVE CountFrom(_, _)
CountFrom(k, x) ==
    IF k > Len(chk.files) THEN 0
    ELSE Count(IssuesOf(chk.files[k]), x) + CountFrom(k + 1, x)

\* The goroutines of Check that hold a slot of its semaphore, and those
\* that have not returned.
CheckSlotHolders ==
    chk.acquired + BagCardinality(chk.checking)
        + BagCardinality(chk.locking) + Len(chk.appending)
CheckUnfinished ==
    BagCardinality(chk.started) + BagCardinality(chk.checking)
        + BagCardinality(chk.locking) + Len(chk.appending)

\* C28: the goroutines that hold a slot, so those inside checkFile, never
\* outnumber the semaphore's capacity; when Check has returned every
\* goroutine it started has finished, and each issue occurs in the result
\* as often as in what was found for the inputs together.
C28_CheckJoinsBoundsAndCollects ==
    /\ chk.semaphore = CheckSlotHolders
    /\ chk.semaphore <= Capacity(chk.kind)
    /\ chk.wg = CheckUnfinished
    /\ chk.pc = "done" =>
          /\ CheckUnfinished = 0
          /\ \A k \in 1..Len(chk.files) :
               \A j \in 1..Len(chk.files[k].found) :
                  LET x == checkFile(chk.files[k])[j]
                  IN Count(chk.issues, x) = CountFrom(1, x)
          /\ \A j \in 1..Len(chk.issues) : CountFrom(1, chk.issues[j]) > 0

\* C28 witness: Check has returned issues of more than one input after it
\* had all slots of its semaphore taken.
C28_Witness ==
    /\ chk.pc = "done"
    /\ chk.peak = Capacity(chk.kind)
    /\ \E j, k \in 1..Len(chk.issues) :
          chk.issues[j].FilePath # chk.issues[k].FilePath

\* C29: when the secretlint Check has returned, no temporary file and no
\* temporary directory that createTempFile made is left.
C29_TempFilesRemoved ==
    (chk.kind = "secretlint" /\ chk.pc = "done")
        => chk.tempFiles = 0 /\ chk.tempDirs = 0

\* Root i of the worker-pool Scan is a regular file, and Scan is past it or
\* has returned from it.
FileRootDone(i) ==
    /\ variant = "pool"
    /\ Statable(roots[i])
    /\ ~Lookup(roots[i]).isDir
    /\ i < idx \/ (i = idx /\ pc = "failed")

\* C30: in the worker-pool Scan, a root that is a regular file gets no
\* worker; when it is not ignored scanFile was called on it, whatever the
\* include patterns say, and unless Scan has failed its record is in files,
\* and when it is ignored it was not opened; when its scanFile failed or a
\* root could not be stat'ed Scan has returned an error and no record;
\* and a failed scanFile is the reason of a failed Scan only for a root,
\* never for a file a walk dispatched.
C30_FileRootReadInline ==
    /\ \A i \in 1..Len(roots) : FileRootDone(i) =>
          /\ \A w \in Ids : w[1] # i
          /\ <<i, roots[i]>> \in opened <=> ~shouldIgnore(roots[i])
          /\ (~shouldIgnore(roots[i]) /\ pc # "failed")
                => Holds(files, roots[i])
          /\ (~shouldIgnore(roots[i]) /\ ~scanFile(roots[i]).ok)
                => pc = "failed" /\ err = "scanFile" /\ files = <<>>
    /\ (variant = "pool" /\ pc # "scan") =>
          \A i \in 1..Len(roots) :
              (~Statable(roots[i]) /\ (i < idx \/ Returned))
                  => pc = "failed" /\ err = "stat" /\ files = <<>>
    /\ (variant = "pool" /\ pc = "failed" /\ err = "scanFile")
          => FileRootDone(idx) /\ ~scanFile(roots[idx]).ok

\* C30 witness: Scan has failed on the read of a file root after it read
\* another file root that none of the include patterns matches.
C30_Witness ==
    /\ variant = "pool"
    /\ pc = "failed"
    /\ err = "scanFile"
    /\ files = <<>>
    /\ Len(include) > 0
    /\ \E i \in 1..Len(roots) :
          /\ i < idx
          /\ FileRootDone(i)
          /\ ~shouldInclude(roots[i])
          /\ <<i, roots[i]>> \in opened

====
